---- MODULE Spec2Model ----
(***************************************************************************)
(* Model of cloud/amazon/ec2_elb_lb.py: one invocation of main() builds an *)
(* ElbManager for a desired configuration (cfg), fetches the named load    *)
(* balancer and runs ensure_ok() or ensure_gone() against the provider     *)
(* (live).  Every provider call is one step, so the states between two     *)
(* calls of a sync step are visible.  The caller may re-invoke main() with *)
(* the same configuration (Rerun).                                         *)
(***************************************************************************)
EXTENDS Integers, Sequences, FiniteSets, TLC

VARIABLES cfg, support, live, live0, elb, changed, Changed, status, pc,
          tmp, calls, steps, run, results

vars == <<cfg, support, live, live0, elb, changed, Changed, status, pc,
          tmp, calls, steps, run, results>>

(* ------------------------------ bounds -------------------------------- *)

\* invocations of main() with the same configuration
MaxRuns == 2

\* longest desired listener list
MaxInstances == 3

MaxListeners == 2

(* ----------------------------- universes ------------------------------ *)

None == "None"

\* a key that is not in a parameter dict
NoKey == "NoKey"

Zones == {"us-east-1a", "us-east-1d"}

Subnets == {"subnet-1", "subnet-2"}

SecurityGroups == {"sg-1", "sg-2"}

Ports == {80, 443}

\* an optional parameter is <<>> for None and <<v>> for the value v
\* python truthiness of an optional integer parameter (None and 0 are false)
TruthyInt(opt) == opt # <<>> /\ opt[1] # 0

\* python truthiness of an optional boolean parameter
TruthyBool(opt) == opt # <<>> /\ opt[1]

\* str.upper() on the protocol names the module accepts
Upper(p) ==
  CASE p = "http" -> "HTTP"
    [] p = "https" -> "HTTPS"
    [] p = "tcp" -> "TCP"
    [] p = "ssl" -> "SSL"
    [] OTHER -> p

\* str.startswith('HTTP')
StartsWithHTTP(p) == p \in {"HTTP", "HTTPS"}

SeqToSet(s) == {s[i] : i \in DOMAIN s}

RECURSIVE SetToSeqs(_)
\* every ordering of a finite set
SetToSeqs(S) ==
  IF S = {} THEN {<<>>}
  ELSE UNION {{<<x>> \o t : t \in SetToSeqs(S \ {x})} : x \in S}

(* ----------------------------- listeners ------------------------------ *)

\* ElbManager._listener_as_tuple: 4- or 5-tuple of a desired listener dict
_listener_as_tuple(listener) ==
  LET base == <<listener.load_balancer_port, listener.instance_port,
                Upper(listener.protocol)>>
      withip == IF listener.instance_protocol # NoKey
                THEN Append(base, Upper(listener.instance_protocol))
                ELSE Append(base, Upper(listener.protocol))
  IN  IF listener.ssl_certificate_id # NoKey
      THEN Append(withip, listener.ssl_certificate_id)
      ELSE withip

\* ElbManager._api_listener_as_tuple: tuple of a listener the API returned
_api_listener_as_tuple(listener) ==
  LET base_tuple == <<listener.load_balancer_port, listener.instance_port,
                      listener.protocol, listener.instance_protocol>>
  IN  IF listener.ssl_certificate_id # None
      THEN Append(base_tuple, listener.ssl_certificate_id)
      ELSE base_tuple

\* the listener object the provider stores for a complex-listener tuple
ListenerOfTuple(t) ==
  [load_balancer_port |-> t[1], instance_port |-> t[2], protocol |-> t[3],
   instance_protocol |-> t[4],
   ssl_certificate_id |-> IF Len(t) > 4 THEN t[5] ELSE None]

RECURSIVE FindExisting(_, _, _)
\* inner loop of _set_elb_listeners: the first existing listener on the port
FindExisting(existing, i, port) ==
  IF i > Len(existing) THEN <<>>
  ELSE IF existing[i].load_balancer_port = port
       THEN _api_listener_as_tuple(existing[i])
       ELSE FindExisting(existing, i + 1, port)

RECURSIVE ScanDesiredNoRemove(_, _, _, _)
\* mutant: an overwritten listener is not queued for removal
ScanDesiredNoRemove(listeners, existing, i, acc) ==
  IF i > Len(listeners) THEN acc
  ELSE
    LET listener_as_tuple == _listener_as_tuple(listeners[i])
        existing_listener_found ==
          FindExisting(existing, 1, listeners[i].load_balancer_port)
        acc2 ==
          IF existing_listener_found # <<>>
          THEN IF listener_as_tuple # existing_listener_found
               THEN [acc EXCEPT !.add = Append(@, listener_as_tuple)]
               ELSE [acc EXCEPT !.keep = Append(@, existing_listener_found)]
          ELSE [acc EXCEPT !.add = Append(@, listener_as_tuple)]
    IN  ScanDesiredNoRemove(listeners, existing, i + 1, acc2)

RECURSIVE ScanDesired(_, _, _, _)
\* first loop of _set_elb_listeners: listeners to create or overwrite
ScanDesired(listeners, existing, i, acc) ==
  IF i > Len(listeners) THEN acc
  ELSE
    LET listener_as_tuple == _listener_as_tuple(listeners[i])
        existing_listener_found ==
          FindExisting(existing, 1, listeners[i].load_balancer_port)
        acc2 ==
          IF existing_listener_found # <<>>
          THEN IF listener_as_tuple # existing_listener_found
               THEN [acc EXCEPT
                       !.remove = Append(@, existing_listener_found),
                       !.add = Append(@, listener_as_tuple)]
               ELSE [acc EXCEPT !.keep = Append(@, existing_listener_found)]
          ELSE [acc EXCEPT !.add = Append(@, listener_as_tuple)]
    IN  ScanDesired(listeners, existing, i + 1, acc2)

RECURSIVE PurgeExtraneousKept(_, _, _)
\* mutant: the purge does not spare the listeners to keep
PurgeExtraneousKept(existing, i, acc) ==
  IF i > Len(existing) THEN acc
  ELSE
    LET existing_listener_tuple == _api_listener_as_tuple(existing[i])
    IN  IF existing_listener_tuple \in SeqToSet(acc.remove)
        THEN PurgeExtraneousKept(existing, i + 1, acc)
        ELSE PurgeExtraneousKept(existing, i + 1,
               [acc EXCEPT !.remove = Append(@, existing_listener_tuple)])

RECURSIVE PurgeExtraneous(_, _, _)
\* second loop of _set_elb_listeners: extraneous listeners to remove
PurgeExtraneous(existing, i, acc) ==
  IF i > Len(existing) THEN acc
  ELSE
    LET existing_listener_tuple == _api_listener_as_tuple(existing[i])
    IN  IF existing_listener_tuple \in SeqToSet(acc.remove)
        THEN PurgeExtraneous(existing, i + 1, acc)
        ELSE IF existing_listener_tuple \in SeqToSet(acc.keep)
        THEN PurgeExtraneous(existing, i + 1, acc)
        ELSE PurgeExtraneous(existing, i + 1,
               [acc EXCEPT !.remove = Append(@, existing_listener_tuple)])

\* mutant: purge_listeners is not looked at
ListenerDiffAlwaysPurge(listeners, existing, purge_listeners) ==
  PurgeExtraneous(existing, 1,
    ScanDesired(listeners, existing, 1,
                [add |-> <<>>, remove |-> <<>>, keep |-> <<>>]))

\* _set_elb_listeners up to its two calls: the three lists it builds
ListenerDiff(listeners, existing, purge_listeners) ==
  LET scanned == ScanDesired(listeners, existing, 1,
                             [add |-> <<>>, remove |-> <<>>, keep |-> <<>>])
  IN  IF purge_listeners
      THEN PurgeExtraneous(existing, 1, scanned)
      ELSE scanned

(* ------------------------------ provider ------------------------------ *)

\* the load balancer that does not exist
NoElb ==
  [exists |-> FALSE, zones |-> {}, subnets |-> {}, security_groups |-> {},
   listeners |-> {}, health_check |-> <<>>,
   connection_draining |-> [enabled |-> FALSE, timeout |-> 300],
   cross_zone |-> FALSE, lb_policies |-> <<>>, app_policies |-> <<>>,
   listener_policies |-> {}, instance_states |-> <<>>]

\* self.elb when get_all_load_balancers() has no balancer of that name
NoElbObject ==
  [found |-> FALSE, availability_zones |-> {}, subnets |-> {},
   security_groups |-> {}, listeners |-> <<>>, health_check |-> <<>>]

\* at most one listener per load_balancer_port
UniquePorts(listeners) ==
  \A a, b \in listeners : a.load_balancer_port = b.load_balancer_port => a = b

RECURSIVE AddListeners(_, _, _)
\* CreateLoadBalancerListeners: a tuple on a free port is added, one equal to
\* the listener on its port is accepted, any other one is a DuplicateListener
\* error; the result is [ok, listeners]
AddListeners(listeners, tuples, i) ==
  IF i > Len(tuples) THEN [ok |-> TRUE, listeners |-> listeners]
  ELSE
    LET new == ListenerOfTuple(tuples[i])
        same_port == {l \in listeners :
                        l.load_balancer_port = new.load_balancer_port}
    IN  IF same_port \subseteq {new}
        THEN AddListeners(listeners \cup {new}, tuples, i + 1)
        ELSE [ok |-> FALSE, listeners |-> listeners]

\* elb_conn.create_load_balancer_listeners(name, complex_listeners)
create_load_balancer_listeners(lb, tuples) ==
  LET r == AddListeners(lb.listeners, tuples, 1)
  IN  [ok |-> r.ok,
       lb |-> IF r.ok THEN [lb EXCEPT !.listeners = r.listeners] ELSE lb]

\* elb_conn.delete_load_balancer_listeners(name, ports)
delete_load_balancer_listeners(lb, ports) ==
  [lb EXCEPT
     !.listeners = {l \in @ : l.load_balancer_port \notin ports},
     !.listener_policies = {lp \in @ : lp[1] \notin ports}]

\* the health check of a balancer that was never given one
DefaultHealthCheck ==
  [target |-> <<"TCP", 80, "">>, timeout |-> 5, interval |-> 30,
   unhealthy_threshold |-> 2, healthy_threshold |-> 10]

\* elb_conn.create_load_balancer(name, zones, security_groups,
\* complex_listeners, subnets, scheme)
create_load_balancer(zones, security_group_ids, tuples, subnets) ==
  LET r == AddListeners({}, tuples, 1)
  IN  [ok |-> r.ok,
       lb |-> [NoElb EXCEPT
                 !.exists = TRUE,
                 !.zones = zones,
                 !.subnets = subnets,
                 !.security_groups =
                   IF security_group_ids = <<>> THEN {}
                   ELSE security_group_ids[1],
                 !.listeners = r.listeners,
                 !.health_check = <<DefaultHealthCheck>>]]

(* --------------------------- configurations --------------------------- *)

\* the desired listeners of the examples, and variations of them
ListenerDicts ==
  {[load_balancer_port |-> pp[1], instance_port |-> pp[2], protocol |-> pp[3],
    instance_protocol |-> NoKey, ssl_certificate_id |-> NoKey] :
     pp \in {<<80, 80, "http">>, <<80, 8080, "http">>, <<80, 80, "tcp">>,
             <<443, 80, "http">>}}
  \cup
  {[load_balancer_port |-> 443, instance_port |-> 80, protocol |-> "https",
    instance_protocol |-> "http", ssl_certificate_id |-> "cert-1"]}

\* the listeners a live balancer can have on one port
LiveListenersOn(p) ==
  {ListenerOfTuple(_listener_as_tuple(d)) :
     d \in {x \in ListenerDicts : x.load_balancer_port = p}}

\* the listener sets of a live balancer: at most one listener per port
LiveListenerSets ==
  {S \in SUBSET (UNION {LiveListenersOn(p) : p \in Ports}) : UniquePorts(S)}

RECURSIVE SeqsUpTo(_, _)
\* the sequences over S of length at most n
SeqsUpTo(S, n) ==
  IF n = 0 THEN {<<>>}
  ELSE LET shorter == SeqsUpTo(S, n - 1)
       IN  shorter \cup {Append(t, x) : t \in shorter, x \in S}

L80 ==
  [load_balancer_port |-> 80, instance_port |-> 80, protocol |-> "http",
   instance_protocol |-> NoKey, ssl_certificate_id |-> NoKey]

L443 ==
  [load_balancer_port |-> 443, instance_port |-> 80, protocol |-> "https",
   instance_protocol |-> "http", ssl_certificate_id |-> "cert-1"]

\* health_check parameter dicts
HC1 ==
  [ping_protocol |-> "http", ping_port |-> 80, ping_path |-> "/index.html",
   response_timeout |-> 5, interval |-> 30, unhealthy_threshold |-> 2,
   healthy_threshold |-> 10]

HC2 ==
  [ping_protocol |-> "tcp", ping_port |-> 80, ping_path |-> "/index.html",
   response_timeout |-> 5, interval |-> 30, unhealthy_threshold |-> 2,
   healthy_threshold |-> 10]

HC3 == [HC1 EXCEPT !.healthy_threshold = 3, !.ping_path = NoKey]

\* ElbManager._get_health_check_target: "%s:%s%s" as its three parts
_get_health_check_target(health_check) ==
  LET protocol == Upper(health_check.ping_protocol)
      path == IF protocol \in {"HTTP", "HTTPS"}
                 /\ health_check.ping_path # NoKey
              THEN health_check.ping_path
              ELSE ""
  IN  <<protocol, health_check.ping_port, path>>

\* health_check_config of _set_health_check
health_check_config(health_check) ==
  [target |-> _get_health_check_target(health_check),
   timeout |-> health_check.response_timeout,
   interval |-> health_check.interval,
   unhealthy_threshold |-> health_check.unhealthy_threshold,
   healthy_threshold |-> health_check.healthy_threshold]

\* ElbManager._policy_name: <module file name>-<policy type>
_policy_name(policy_type) ==
  CASE policy_type = "LBCookieStickinessPolicyType"
         -> "ec2-elb-lb-LBCookieStickinessPolicyType"
    [] policy_type = "AppCookieStickinessPolicyType"
         -> "ec2-elb-lb-AppCookieStickinessPolicyType"

LBName == _policy_name("LBCookieStickinessPolicyType")

AppName == _policy_name("AppCookieStickinessPolicyType")

\* a stickiness parameter dict
Stick(type, enabled, expiration, cookie) ==
  [type |-> type, enabled |-> enabled, expiration |-> expiration,
   cookie |-> cookie]

StickinessParams ==
  {<<>>,
   <<Stick("loadbalancer", TRUE, "300", NoKey)>>,
   <<Stick("loadbalancer", TRUE, "600", NoKey)>>,
   <<Stick("loadbalancer", TRUE, NoKey, NoKey)>>,
   <<Stick("loadbalancer", FALSE, NoKey, NoKey)>>,
   <<Stick("loadbalancer", TRUE, "300", "SESSIONID")>>,
   <<Stick("application", TRUE, NoKey, "SESSIONID")>>,
   <<Stick("application", TRUE, NoKey, "JSESSIONID")>>,
   <<Stick("application", TRUE, NoKey, NoKey)>>,
   <<Stick("application", FALSE, NoKey, NoKey)>>,
   <<Stick("application", FALSE, "300", "SESSIONID")>>,
   <<Stick("other", TRUE, NoKey, NoKey)>>}

\* a stickiness policy of a live balancer
Policy(name, value) == [policy_name |-> name, value |-> value]

LiveLbPolicies ==
  {<<>>, <<Policy(LBName, "300")>>, <<Policy("other-lb", "300")>>,
   <<Policy("other-lb", "300"), Policy(LBName, "600")>>}

LiveAppPolicies ==
  {<<>>, <<Policy(AppName, "SESSIONID")>>,
   <<Policy("other-app", "SESSIONID"), Policy(AppName, "SESSIONID")>>}

\* the state strings of describe_instance_health
InstanceStates == {"InService", "OutOfService", "Unknown"}

\* the states of the instances behind a live balancer, one per instance
InstOpts == SeqsUpTo(InstanceStates, MaxInstances)

\* one choice per feature group: the parameters and the live values of it
ExistOpts == [state : {"present", "absent"}, exists : BOOLEAN]

NetOpts ==
  [zones : SUBSET Zones, purge_zones : BOOLEAN, live_zones : SUBSET Zones \ {{}},
   subnets : SUBSET Subnets, purge_subnets : BOOLEAN,
   live_subnets : SUBSET Subnets]

SgOpts ==
  [security_group_ids : {<<>>} \cup {<<S>> : S \in SUBSET SecurityGroups},
   live : SUBSET SecurityGroups]

ListenerOpts ==
  [listeners : SeqsUpTo(ListenerDicts, MaxListeners),
   purge_listeners : BOOLEAN, live : LiveListenerSets]

HcOpts ==
  [health_check : {<<>>, <<HC1>>, <<HC2>>, <<HC3>>},
   live : {DefaultHealthCheck, health_check_config(HC1)}]

AttrOpts ==
  [connection_draining_timeout : {<<>>, <<0>>, <<60>>},
   cross_az_load_balancing : {<<>>, <<TRUE>>, <<FALSE>>},
   support : [connection_draining : BOOLEAN,
              cross_zone_load_balancing : BOOLEAN],
   live_draining : {[enabled |-> FALSE, timeout |-> 300],
                    [enabled |-> TRUE, timeout |-> 60]},
   live_cross_zone : BOOLEAN]

StickOpts ==
  [stickiness : StickinessParams, lb_policies : LiveLbPolicies,
   app_policies : LiveAppPolicies, attached : BOOLEAN]

\* a TCP listener next to an HTTPS one, on a balancer that has both or that
\* has an HTTP listener on the port of the TCP one
MixedListenerOpts ==
  LET tcp == [L80 EXCEPT !.protocol = "tcp"]
  IN  [listeners : {<<tcp, L443>>},
       purge_listeners : {TRUE},
       live : {{ListenerOfTuple(_listener_as_tuple(tcp)),
                ListenerOfTuple(_listener_as_tuple(L443))},
               {ListenerOfTuple(_listener_as_tuple(L80))}}]

\* the configuration of the first example, on a balancer that matches it
Base ==
  [exist |-> [state |-> "present", exists |-> TRUE],
   net |-> [zones |-> {"us-east-1a"}, purge_zones |-> FALSE,
            live_zones |-> {"us-east-1a"}, subnets |-> {},
            purge_subnets |-> FALSE, live_subnets |-> {}],
   sg |-> [security_group_ids |-> <<>>, live |-> {"sg-1"}],
   lsn |-> [listeners |-> <<L80>>, purge_listeners |-> TRUE,
            live |-> {ListenerOfTuple(_listener_as_tuple(L80))}],
   hc |-> [health_check |-> <<>>, live |-> DefaultHealthCheck],
   attr |-> [connection_draining_timeout |-> <<>>,
             cross_az_load_balancing |-> <<>>,
             support |-> [connection_draining |-> TRUE,
                          cross_zone_load_balancing |-> TRUE],
             live_draining |-> [enabled |-> FALSE, timeout |-> 300],
             live_cross_zone |-> FALSE],
   stick |-> [stickiness |-> <<>>, lb_policies |-> <<>>,
              app_policies |-> <<>>, attached |-> FALSE],
   inst |-> <<>>]

\* zones and subnets that are desired with purging on a balancer that has
\* exactly them
PurgedNet ==
  [zones |-> {"us-east-1a"}, purge_zones |-> TRUE,
   live_zones |-> {"us-east-1a"}, subnets |-> {"subnet-1"},
   purge_subnets |-> TRUE, live_subnets |-> {"subnet-1"}]

\* no zones parameter, with purging, on a balancer that has a zone; the
\* subnets are to be replaced
OmittedZonesNet ==
  [zones |-> {}, purge_zones |-> TRUE, live_zones |-> {"us-east-1d"},
   subnets |-> {"subnet-1"}, purge_subnets |-> TRUE,
   live_subnets |-> {"subnet-2"}]

\* a second value of every feature group, each one a difference to repair
Alt ==
  [exist |-> [state |-> "present", exists |-> FALSE],
   net |-> [zones |-> {"us-east-1a"}, purge_zones |-> TRUE,
            live_zones |-> {"us-east-1d"}, subnets |-> {"subnet-1"},
            purge_subnets |-> TRUE, live_subnets |-> {"subnet-2"}],
   sg |-> [security_group_ids |-> <<{"sg-2"}>>, live |-> {"sg-1"}],
   lsn |-> [listeners |-> <<L80, L443>>, purge_listeners |-> TRUE,
            live |-> {ListenerOfTuple(<<80, 8080, "HTTP", "HTTP">>)}],
   hc |-> [health_check |-> <<HC1>>, live |-> DefaultHealthCheck],
   attr |-> [connection_draining_timeout |-> <<60>>,
             cross_az_load_balancing |-> <<TRUE>>,
             support |-> [connection_draining |-> TRUE,
                          cross_zone_load_balancing |-> TRUE],
             live_draining |-> [enabled |-> FALSE, timeout |-> 300],
             live_cross_zone |-> FALSE],
   stick |-> [stickiness |-> <<Stick("loadbalancer", FALSE, NoKey, NoKey)>>,
              lb_policies |-> <<>>, app_policies |-> <<>>,
              attached |-> FALSE],
   inst |-> <<"InService", "OutOfService">>]

\* the choices explored: one feature group varies over all its values while
\* the others keep the base value, or every group takes one of two values
Choices ==
  {[Base EXCEPT !.exist = o] : o \in ExistOpts}
  \cup {[Base EXCEPT !.net = o] : o \in NetOpts}
  \cup {[Base EXCEPT !.sg = o] : o \in SgOpts}
  \cup {[Base EXCEPT !.lsn = o] : o \in ListenerOpts}
  \cup {[Base EXCEPT !.hc = o] : o \in HcOpts}
  \cup {[Base EXCEPT !.attr = o] : o \in AttrOpts}
  \cup {[Base EXCEPT !.stick = o] : o \in StickOpts}
  \cup {[Base EXCEPT !.inst = o] : o \in InstOpts}
  \cup {[Base EXCEPT !.stick = o, !.lsn = m] :
          o \in StickOpts, m \in MixedListenerOpts}
  \cup {[Base EXCEPT !.net = OmittedZonesNet, !.stick = o] :
          o \in {x \in StickOpts : x.stickiness = <<>>}}
  \cup [exist : ExistOpts, net : {Base.net, Alt.net}, sg : {Base.sg, Alt.sg},
        lsn : {Base.lsn, Alt.lsn}, hc : {Base.hc, Alt.hc},
        attr : {Base.attr, Alt.attr}, stick : {Base.stick, Alt.stick},
        inst : {Alt.inst}]

\* the choices explored next to another client of the provider
ConcChoices ==
  [exist : ExistOpts, net : {Base.net, Alt.net, PurgedNet}, sg : {Alt.sg},
   lsn : {Base.lsn, Alt.lsn}, hc : {Alt.hc}, attr : {Alt.attr},
   stick : {Base.stick, Alt.stick,
            [Base.stick EXCEPT
               !.stickiness = <<Stick("loadbalancer", TRUE, "300", NoKey)>>]},
   inst : {Base.inst}]

\* the parameters of the invocation (module.params)
ParamsOf(c) ==
  [state |-> c.exist.state,
   listeners |-> c.lsn.listeners,
   purge_listeners |-> c.lsn.purge_listeners,
   zones |-> c.net.zones,
   purge_zones |-> c.net.purge_zones,
   security_group_ids |-> c.sg.security_group_ids,
   health_check |-> c.hc.health_check,
   subnets |-> c.net.subnets,
   purge_subnets |-> c.net.purge_subnets,
   connection_draining_timeout |-> c.attr.connection_draining_timeout,
   cross_az_load_balancing |-> c.attr.cross_az_load_balancing,
   stickiness |-> c.stick.stickiness]

\* the balancer of that name at the provider before the first invocation
LiveOf(c) ==
  IF ~c.exist.exists THEN NoElb
  ELSE
    [exists |-> TRUE,
     zones |-> c.net.live_zones,
     subnets |-> c.net.live_subnets,
     security_groups |-> c.sg.live,
     listeners |-> c.lsn.live,
     health_check |-> <<c.hc.live>>,
     connection_draining |-> c.attr.live_draining,
     cross_zone |-> c.attr.live_cross_zone,
     lb_policies |-> c.stick.lb_policies,
     app_policies |-> c.stick.app_policies,
     listener_policies |->
       IF ~c.stick.attached THEN {}
       ELSE {<<l.load_balancer_port, p.policy_name>> :
               l \in {x \in c.lsn.live : StartsWithHTTP(x.protocol)},
               p \in SeqToSet(c.stick.lb_policies)
                       \cup SeqToSet(c.stick.app_policies)},
     instance_states |-> c.inst]

\* locals of a sync step that live across its provider calls
NoTmp == [disable |-> {}, ports |-> {}, plan |-> "", policy |-> ""]

\* the module is started with the parameters and on the balancer of a choice
Start(c) ==
  /\ cfg = ParamsOf(c)
  /\ support = c.attr.support
  /\ live = LiveOf(c)
  /\ live0 = LiveOf(c)
  /\ elb = NoElbObject
  /\ changed = FALSE
  /\ Changed = FALSE
  /\ status = "gone"
  /\ pc = "main"
  /\ tmp = NoTmp
  /\ calls = <<>>
  /\ steps = <<>>
  /\ run = 1
  /\ results = <<>>

Init == \E c \in Choices : Start(c)

(* ------------------------------ actions ------------------------------- *)

Call(op, step, arg) == [op |-> op, step |-> step, arg |-> arg]

\* the provider calls that change the balancer
MutatingOps ==
  {"create_load_balancer", "delete_load_balancer", "enable_zones",
   "disable_zones", "attach_lb_to_subnets", "detach_lb_from_subnets",
   "apply_security_groups_to_lb", "create_load_balancer_listeners",
   "delete_load_balancer_listeners", "configure_health_check",
   "modify_lb_attribute", "create_lb_policy", "delete_lb_policy",
   "set_lb_policies_of_listener"}

\* the instance counters of get_info before the health records are counted,
\* and what stands for the info of a balancer that is not found
NoInfo ==
  [found |-> FALSE, out_of_service_count |-> 0, in_service_count |-> 0,
   unknown_instance_state_count |-> 0]

\* mutant: every state other than InService counts as out of service
CountInstanceStatesTwoWay(instance_health, i, info) ==
  [info EXCEPT
     !.in_service_count =
       Cardinality({k \in DOMAIN instance_health :
                      instance_health[k] = "InService"}),
     !.out_of_service_count =
       Cardinality({k \in DOMAIN instance_health :
                      instance_health[k] # "InService"})]

RECURSIVE CountInstanceStates(_, _, _)
\* get_info: the loop over info['instance_health']
CountInstanceStates(instance_health, i, info) ==
  IF i > Len(instance_health) THEN info
  ELSE CountInstanceStates(instance_health, i + 1,
         IF instance_health[i] = "InService"
         THEN [info EXCEPT !.in_service_count = @ + 1]
         ELSE IF instance_health[i] = "OutOfService"
         THEN [info EXCEPT !.out_of_service_count = @ + 1]
         ELSE [info EXCEPT !.unknown_instance_state_count = @ + 1])

\* get_info: the instance counters of the balancer of that name
get_info(check_elb) ==
  IF ~check_elb.exists THEN NoInfo
  ELSE LET instances == DOMAIN check_elb.instance_states
           instance_health == IF instances # {}
                              THEN check_elb.instance_states
                              ELSE <<>>
       IN  CountInstanceStates(instance_health, 1,
                               [NoInfo EXCEPT !.found = TRUE])

\* module.fail_json(msg), or an exception of the provider client that nothing
\* catches: the invocation ends without a result
Fail(msg) ==
  /\ pc' = "failed"
  /\ results' = Append(results, [failed |-> TRUE, changed |-> FALSE,
                                 status |-> status, msg |-> msg,
                                 info |-> NoInfo])

\* mutant: the manager is built whatever the parameters are
main_unchecked ==
  /\ pc = "main"
  /\ pc' = "init"
  /\ UNCHANGED <<cfg, support, live, live0, elb, changed, Changed, status,
                 tmp, calls, steps, run, results>>

\* main(): the checks on the parameters before the manager is built
main ==
  /\ pc = "main"
  /\ IF cfg.state = "present" /\ cfg.listeners = <<>>
     THEN Fail("At least one port is required for ELB creation")
     ELSE IF cfg.state = "present" /\ cfg.zones = {} /\ cfg.subnets = {}
     THEN Fail("At least one availability zone or subnet is required for ELB creation")
     ELSE pc' = "init" /\ UNCHANGED results
  /\ UNCHANGED <<cfg, support, live, live0, elb, changed, Changed, status,
                 tmp, calls, steps, run>>

\* ElbManager.__init__ and _get_elb: the balancer is fetched once
ElbManager_init ==
  /\ pc = "init"
  /\ changed' = FALSE
  /\ status' = IF live.exists THEN "ok" ELSE "gone"
  /\ IF live.exists
     THEN \E order \in SetToSeqs(live.listeners) :
            elb' = [found |-> TRUE,
                    availability_zones |-> live.zones,
                    subnets |-> live.subnets,
                    security_groups |-> live.security_groups,
                    listeners |-> order,
                    health_check |-> live.health_check]
     ELSE elb' = NoElbObject
  /\ calls' = Append(calls, Call("get_all_load_balancers", "init", {}))
  /\ pc' = "check_support"
  /\ UNCHANGED <<cfg, support, live, live0, Changed, tmp, steps, run, results>>

\* ElbManager._check_attribute_support
_check_attribute_support(attr) == support[attr]

\* main(): unsupported attributes, then ensure_ok() or ensure_gone()
check_support ==
  /\ pc = "check_support"
  /\ IF TruthyBool(cfg.cross_az_load_balancing)
        /\ ~_check_attribute_support("cross_zone_load_balancing")
     THEN Fail("You must install boto >= 2.18.0 to use the cross_az_load_balancing attribute")
     ELSE IF TruthyInt(cfg.connection_draining_timeout)
             /\ ~_check_attribute_support("connection_draining")
     THEN Fail("You must install boto >= 2.28.0 to use the connection_draining_timeout attribute")
     ELSE /\ pc' = IF cfg.state = "present" THEN "ensure_ok" ELSE "ensure_gone"
          /\ UNCHANGED results
  /\ UNCHANGED <<cfg, support, live, live0, elb, changed, Changed, status,
                 tmp, calls, steps, run>>

\* mutant: security groups are synced before the zones
ensure_ok_order_groups_first ==
  <<"set_security_groups", "set_zones", "set_elb_listeners", "set_subnets",
    "set_health_check", "connection_draining", "cross_az", "stickiness">>

\* mutant: listeners are synced before the zones
ensure_ok_order_listeners_first ==
  <<"set_elb_listeners", "set_zones", "set_security_groups", "set_subnets",
    "set_health_check", "connection_draining", "cross_az", "stickiness">>

\* the calls of ensure_ok on a balancer that was found, in their order; a
\* created one enters at _set_health_check
ensure_ok_order ==
  <<"set_zones", "set_security_groups", "set_elb_listeners", "set_subnets",
    "set_health_check", "connection_draining", "cross_az", "stickiness">>

\* where ensure_ok goes after the call at p; after the last one main() goes on
Then(p) ==
  LET i == CHOOSE k \in DOMAIN ensure_ok_order : ensure_ok_order[k] = p
  IN  IF i = Len(ensure_ok_order) THEN "exit" ELSE ensure_ok_order[i + 1]

\* ensure_ok: create the balancer, or sync the one that was found
ensure_ok ==
  /\ pc = "ensure_ok"
  /\ pc' = IF ~elb.found THEN "create_elb" ELSE ensure_ok_order[1]
  /\ UNCHANGED <<cfg, support, live, live0, elb, changed, Changed, status,
                 tmp, calls, steps, run, results>>

\* mutant: the balancer is deleted whether it was found or not
ensure_gone_unconditional ==
  /\ pc = "ensure_gone"
  /\ pc' = "delete_elb"
  /\ UNCHANGED <<cfg, support, live, live0, elb, changed, Changed, status,
                 tmp, calls, steps, run, results>>

\* ensure_gone: delete the balancer that was found
ensure_gone ==
  /\ pc = "ensure_gone"
  /\ pc' = IF elb.found THEN "delete_elb" ELSE "exit"
  /\ UNCHANGED <<cfg, support, live, live0, elb, changed, Changed, status,
                 tmp, calls, steps, run, results>>

_delete_elb ==
  /\ pc = "delete_elb"
  /\ live' = NoElb
  /\ calls' = Append(calls, Call("delete_load_balancer", "delete", {}))
  /\ changed' = TRUE
  /\ status' = "deleted"
  /\ pc' = "exit"
  /\ UNCHANGED <<cfg, support, live0, elb, Changed, tmp, steps, run, results>>

\* the listener tuples _create_elb hands to the provider
CreateTuples == [i \in DOMAIN cfg.listeners |-> _listener_as_tuple(cfg.listeners[i])]

_create_elb ==
  /\ pc = "create_elb"
  /\ LET r == create_load_balancer(cfg.zones, cfg.security_group_ids,
                                   CreateTuples, cfg.subnets)
     IN  /\ calls' = Append(calls,
                       Call("create_load_balancer", "create",
                            [zones |-> cfg.zones,
                             security_groups |-> cfg.security_group_ids,
                             complex_listeners |-> CreateTuples,
                             subnets |-> cfg.subnets]))
         /\ IF r.ok
            THEN /\ live' = r.lb
                 /\ elb' = [found |-> TRUE,
                            availability_zones |-> cfg.zones,
                            subnets |-> cfg.subnets,
                            security_groups |-> r.lb.security_groups,
                            listeners |-> <<>>,
                            health_check |-> <<>>]
                 /\ changed' = TRUE
                 /\ status' = "created"
                 /\ pc' = "set_health_check"
                 /\ UNCHANGED results
            ELSE /\ Fail("DuplicateListener")
                 /\ UNCHANGED <<live, elb, changed, status>>
  /\ UNCHANGED <<cfg, support, live0, Changed, tmp, steps, run>>

\* mutant: the zones to disable are computed whatever purge_zones is
zones_to_disable_ignoring_purge ==
  IF cfg.zones # {} THEN elb.availability_zones \ cfg.zones ELSE {}

\* mutant: with purge_zones the zones are purged even when none is desired
zones_to_disable_when_omitted ==
  IF cfg.purge_zones THEN elb.availability_zones \ cfg.zones ELSE {}

\* the lists _set_zones builds from self.zones and self.elb
zones_to_disable ==
  IF cfg.zones # {} /\ cfg.purge_zones
  THEN elb.availability_zones \ cfg.zones
  ELSE {}

zones_to_enable ==
  IF cfg.zones # {} THEN cfg.zones \ elb.availability_zones ELSE {}

\* mutant: the zones are disabled before the new ones are enabled
_set_zones_disable_first ==
  /\ pc = "set_zones"
  /\ steps' = Append(steps, "SyncZones")
  /\ tmp' = NoTmp
  /\ live' = [live EXCEPT !.zones = (@ \ zones_to_disable) \cup zones_to_enable]
  /\ elb' = [elb EXCEPT !.availability_zones = live'.zones]
  /\ calls' = calls
       \o (IF zones_to_disable # {}
           THEN <<Call("disable_zones", "SyncZones", zones_to_disable)>>
           ELSE <<>>)
       \o (IF zones_to_enable # {}
           THEN <<Call("enable_zones", "SyncZones", zones_to_enable)>>
           ELSE <<>>)
  /\ changed' = (changed \/ zones_to_disable # {} \/ zones_to_enable # {})
  /\ pc' = "disable_zones"
  /\ UNCHANGED <<cfg, support, live0, Changed, status, run, results>>

\* the error_message of a BotoServerError that a zone call can raise
InvalidZoneMessage == "Invalid Availability Zone: us-east-1x"

ServerErrors == {InvalidZoneMessage, "Rate exceeded"}

\* "Invalid Availability Zone" in e.error_message
HasInvalidZone(error_message) == error_message = InvalidZoneMessage

\* the msg of fail_json in the except clauses of _enable_zones, _disable_zones
zone_error_message(error_message) ==
  IF HasInvalidZone(error_message)
  THEN error_message
  ELSE "an unknown server error occurred, please try again later"

\* what a zone call answers: "ok", or the message of its BotoServerError
ZoneCallOutcomes == {"ok"} \cup ServerErrors

\* the except clause of a zone call: the call and its error, then fail_json
ZoneCallFails(op, zones, error_message) ==
  /\ calls' = calls \o <<Call(op, "SyncZones", zones),
                          Call("BotoServerError", "SyncZones", error_message)>>
  /\ Fail(zone_error_message(error_message))
  /\ UNCHANGED <<live, elb, changed>>

\* _set_zones up to and with _enable_zones
_set_zones ==
  /\ pc = "set_zones"
  /\ steps' = Append(steps, "SyncZones")
  /\ tmp' = [NoTmp EXCEPT !.disable = zones_to_disable]
  /\ IF zones_to_enable # {}
     THEN \E outcome \in ZoneCallOutcomes :
            IF outcome = "ok"
            THEN /\ live' = [live EXCEPT !.zones = @ \cup zones_to_enable]
                 /\ elb' = [elb EXCEPT !.availability_zones = live'.zones]
                 /\ calls' = Append(calls,
                               Call("enable_zones", "SyncZones",
                                    zones_to_enable))
                 /\ changed' = TRUE
                 /\ pc' = "disable_zones"
                 /\ UNCHANGED results
            ELSE ZoneCallFails("enable_zones", zones_to_enable, outcome)
     ELSE /\ pc' = "disable_zones"
          /\ UNCHANGED <<live, elb, calls, changed, results>>
  /\ UNCHANGED <<cfg, support, live0, Changed, status, run>>

\* the end of _set_zones: _disable_zones
_disable_zones ==
  /\ pc = "disable_zones"
  /\ IF tmp.disable # {}
     THEN \E outcome \in ZoneCallOutcomes :
            IF outcome = "ok"
            THEN /\ live' = [live EXCEPT !.zones = @ \ tmp.disable]
                 /\ elb' = [elb EXCEPT !.availability_zones = live'.zones]
                 /\ calls' = Append(calls,
                               Call("disable_zones", "SyncZones", tmp.disable))
                 /\ changed' = TRUE
                 /\ pc' = Then("set_zones")
                 /\ UNCHANGED results
            ELSE ZoneCallFails("disable_zones", tmp.disable, outcome)
     ELSE /\ pc' = Then("set_zones")
          /\ UNCHANGED <<live, elb, calls, changed, results>>
  /\ tmp' = NoTmp
  /\ UNCHANGED <<cfg, support, live0, Changed, status, steps, run>>

_set_security_groups ==
  /\ pc = "set_security_groups"
  /\ steps' = Append(steps, "SyncSecurityGroups")
  /\ IF cfg.security_group_ids # <<>>
        /\ elb.security_groups # cfg.security_group_ids[1]
     THEN /\ live' = [live EXCEPT
                        !.security_groups = cfg.security_group_ids[1]]
          /\ calls' = Append(calls,
                        Call("apply_security_groups_to_lb",
                             "SyncSecurityGroups", cfg.security_group_ids[1]))
          /\ Changed' = TRUE
     ELSE UNCHANGED <<live, calls, Changed>>
  /\ pc' = Then("set_security_groups")
  /\ UNCHANGED <<cfg, support, live0, elb, changed, status, tmp, run, results>>

\* the lists _set_elb_listeners builds from self.listeners and self.elb
listeners_to_remove ==
  ListenerDiff(cfg.listeners, elb.listeners, cfg.purge_listeners).remove

listeners_to_add ==
  ListenerDiff(cfg.listeners, elb.listeners, cfg.purge_listeners).add

\* mutant: the additions are created before the removals are deleted
_set_elb_listeners_add_first ==
  /\ pc = "set_elb_listeners"
  /\ steps' = Append(steps, "SyncListeners")
  /\ LET r == create_load_balancer_listeners(live, listeners_to_add)
         ports == {t[1] : t \in SeqToSet(listeners_to_remove)}
         created == IF listeners_to_add # <<>>
                    THEN <<Call("create_load_balancer_listeners",
                                "SyncListeners", listeners_to_add)>>
                    ELSE <<>>
         deleted == IF listeners_to_remove # <<>>
                    THEN <<Call("delete_load_balancer_listeners",
                                "SyncListeners", listeners_to_remove)>>
                    ELSE <<>>
     IN  IF ~r.ok
         THEN /\ calls' = calls \o created
              /\ Fail("DuplicateListener")
              /\ UNCHANGED <<live, changed>>
         ELSE /\ calls' = calls \o created \o deleted
              /\ live' = delete_load_balancer_listeners(r.lb, ports)
              /\ changed' = (changed \/ Len(created) + Len(deleted) > 0)
              /\ pc' = Then("set_elb_listeners")
              /\ UNCHANGED results
  /\ UNCHANGED <<cfg, support, live0, elb, Changed, status, tmp, run>>

\* _set_elb_listeners up to and with _delete_elb_listeners
_set_elb_listeners ==
  /\ pc = "set_elb_listeners"
  /\ steps' = Append(steps, "SyncListeners")
  /\ IF listeners_to_remove # <<>>
     THEN LET ports == {t[1] : t \in SeqToSet(listeners_to_remove)}
          IN  /\ live' = delete_load_balancer_listeners(live, ports)
              /\ calls' = Append(calls,
                            Call("delete_load_balancer_listeners",
                                 "SyncListeners", listeners_to_remove))
              /\ changed' = TRUE
     ELSE UNCHANGED <<live, calls, changed>>
  /\ pc' = "create_elb_listeners"
  /\ UNCHANGED <<cfg, support, live0, elb, Changed, status, tmp, run, results>>

\* the end of _set_elb_listeners: _create_elb_listeners
_create_elb_listeners ==
  /\ pc = "create_elb_listeners"
  /\ IF listeners_to_add # <<>>
     THEN LET r == create_load_balancer_listeners(live, listeners_to_add)
          IN  /\ calls' = Append(calls,
                            Call("create_load_balancer_listeners",
                                 "SyncListeners", listeners_to_add))
              /\ IF r.ok
                 THEN /\ live' = r.lb
                      /\ changed' = TRUE
                      /\ pc' = Then("set_elb_listeners")
                      /\ UNCHANGED results
                 ELSE /\ Fail("DuplicateListener")
                      /\ UNCHANGED <<live, changed>>
     ELSE /\ pc' = Then("set_elb_listeners")
          /\ UNCHANGED <<live, calls, changed, results>>
  /\ UNCHANGED <<cfg, support, live0, elb, Changed, status, tmp, steps, run>>

\* mutant: the subnets to attach are computed from the balancer as it is now
subnets_to_attach_fresh ==
  IF cfg.subnets # {} THEN cfg.subnets \ live.subnets ELSE {}

subnets_to_attach ==
  IF cfg.subnets # {} THEN cfg.subnets \ elb.subnets ELSE {}

\* mutant: no subnet is ever detached
subnets_to_detach_never == {}

subnets_to_detach ==
  IF cfg.subnets # {} /\ cfg.purge_subnets
  THEN elb.subnets \ cfg.subnets
  ELSE {}

\* _set_subnets up to and with _attach_subnets
_set_subnets ==
  /\ pc = "set_subnets"
  /\ steps' = Append(steps, "SyncSubnets")
  /\ IF subnets_to_attach # {}
     THEN /\ live' = [live EXCEPT !.subnets = @ \cup subnets_to_attach]
          /\ calls' = Append(calls,
                        Call("attach_lb_to_subnets", "SyncSubnets",
                             subnets_to_attach))
          /\ changed' = TRUE
     ELSE UNCHANGED <<live, calls, changed>>
  /\ pc' = "detach_subnets"
  /\ UNCHANGED <<cfg, support, live0, elb, Changed, status, tmp, run, results>>

\* the end of _set_subnets: _detach_subnets
_detach_subnets ==
  /\ pc = "detach_subnets"
  /\ IF subnets_to_detach # {}
     THEN /\ live' = [live EXCEPT !.subnets = @ \ subnets_to_detach]
          /\ calls' = Append(calls,
                        Call("detach_lb_from_subnets", "SyncSubnets",
                             subnets_to_detach))
          /\ changed' = TRUE
     ELSE UNCHANGED <<live, calls, changed>>
  /\ pc' = Then("set_subnets")
  /\ UNCHANGED <<cfg, support, live0, elb, Changed, status, tmp, steps, run,
                 results>>

\* boto's HealthCheck() with no arguments
HealthCheck ==
  [target |-> <<>>, timeout |-> 5, interval |-> 30,
   unhealthy_threshold |-> 5, healthy_threshold |-> 3]

\* mutant: the target is not compared
HealthCheckAttrsNoTarget ==
  {"timeout", "interval", "unhealthy_threshold", "healthy_threshold"}

HealthCheckAttrs ==
  {"target", "timeout", "interval", "unhealthy_threshold", "healthy_threshold"}

_set_health_check ==
  /\ pc = "set_health_check"
  /\ steps' = Append(steps, "SyncHealthCheck")
  /\ IF cfg.health_check # <<>>
     THEN LET config == health_check_config(cfg.health_check[1])
              current == IF elb.health_check = <<>> THEN HealthCheck
                         ELSE elb.health_check[1]
              update_health_check ==
                \E attr \in HealthCheckAttrs : current[attr] # config[attr]
          IN  IF update_health_check
              THEN /\ elb' = [elb EXCEPT !.health_check = <<config>>]
                   /\ live' = [live EXCEPT !.health_check = <<config>>]
                   /\ calls' = Append(calls,
                                 Call("configure_health_check",
                                      "SyncHealthCheck", config))
                   /\ changed' = TRUE
              ELSE /\ elb' = [elb EXCEPT !.health_check = <<current>>]
                   /\ UNCHANGED <<live, calls, changed>>
     ELSE UNCHANGED <<elb, live, calls, changed>>
  /\ pc' = Then("set_health_check")
  /\ UNCHANGED <<cfg, support, live0, Changed, status, tmp, run, results>>

\* ensure_ok's capability probe, then _set_connection_draining_timeout
_set_connection_draining_timeout ==
  /\ pc = "connection_draining"
  /\ IF _check_attribute_support("connection_draining")
     THEN /\ steps' = Append(steps, "SyncConnectionDraining")
          /\ live' = [live EXCEPT !.connection_draining =
                        IF cfg.connection_draining_timeout # <<>>
                        THEN [enabled |-> TRUE,
                              timeout |-> cfg.connection_draining_timeout[1]]
                        ELSE [@ EXCEPT !.enabled = FALSE]]
          /\ calls' = calls \o
               <<Call("get_lb_attributes", "SyncConnectionDraining", {}),
                 Call("modify_lb_attribute", "SyncConnectionDraining",
                      live'.connection_draining)>>
     ELSE UNCHANGED <<steps, live, calls>>
  /\ pc' = Then("connection_draining")
  /\ UNCHANGED <<cfg, support, live0, elb, changed, Changed, status, tmp, run,
                 results>>

\* ensure_ok's capability probe, then _set_cross_az_load_balancing
_set_cross_az_load_balancing ==
  /\ pc = "cross_az"
  /\ IF _check_attribute_support("cross_zone_load_balancing")
     THEN /\ steps' = Append(steps, "SyncCrossAzBalancing")
          /\ live' = [live EXCEPT
                        !.cross_zone = TruthyBool(cfg.cross_az_load_balancing)]
          /\ calls' = calls \o
               <<Call("get_lb_attributes", "SyncCrossAzBalancing", {}),
                 Call("modify_lb_attribute", "SyncCrossAzBalancing",
                      live'.cross_zone)>>
     ELSE UNCHANGED <<steps, live, calls>>
  /\ pc' = Then("cross_az")
  /\ UNCHANGED <<cfg, support, live0, elb, changed, Changed, status, tmp, run,
                 results>>

(* ----------------------------- stickiness ----------------------------- *)

RECURSIVE FirstNamed(_, _, _)
\* the for loop of _set_stickiness_policy: the first policy of that name
FirstNamed(policies, i, name) ==
  IF i > Len(policies) THEN 0
  ELSE IF policies[i].policy_name = name THEN i
       ELSE FirstNamed(policies, i + 1, name)

\* mutant: a policy of that name is kept whatever its value is
StickinessPlanKeepValue(policies, name, param_value) ==
  IF FirstNamed(policies, 1, name) = 0 THEN "create" ELSE "attach"

\* _set_stickiness_policy up to its first provider call: what it will do
StickinessPlan(policies, name, param_value) ==
  LET i == FirstNamed(policies, 1, name)
  IN  IF i = 0 THEN "create"
      ELSE IF policies[i].value # param_value THEN "update"
      ELSE "attach"

\* mutant: changed is set when the balancer has any policy of the type
ChangedAfterLbDisableAnyPolicy(policies, was) == Len(policies) > 0

\* self.changed after the enabled == False branch of select_stickiness_policy
\* for the loadbalancer type
ChangedAfterLbDisable(policies, was) ==
  IF Len(policies) > 0
  THEN IF policies[1].policy_name = LBName THEN TRUE ELSE was
  ELSE FALSE

\* mutant: disabling application stickiness always counts as a change
ChangedAfterAppDisableAlways(policies, was) == TRUE

\* self.changed after the enabled == False branch of select_stickiness_policy
\* for the application type
ChangedAfterAppDisable(policies, was) ==
  IF Len(policies) > 0
  THEN IF policies[1].policy_name = AppName THEN TRUE ELSE was
  ELSE was

\* listeners_dict of select_stickiness_policy, cut to the ports that
\* _set_listener_policy acts on: the listeners whose protocol starts with HTTP
HttpPorts(lb) ==
  {l.load_balancer_port : l \in {x \in lb.listeners : StartsWithHTTP(x.protocol)}}

\* select_stickiness_policy up to its first changing provider call
select_stickiness_policy ==
  /\ pc = "stickiness"
  /\ steps' = Append(steps, "SyncStickiness")
  /\ IF cfg.stickiness = <<>>
     THEN /\ pc' = Then("stickiness")
          /\ UNCHANGED <<tmp, calls, changed, results>>
     ELSE
       LET s == cfg.stickiness[1]
           info == Call("get_all_load_balancers", "SyncStickiness", {})
           goto(plan, name) ==
             /\ tmp' = [NoTmp EXCEPT !.plan = plan, !.policy = name,
                                     !.ports = HttpPorts(live)]
             /\ pc' = CASE plan = "create" -> "stick_create"
                        [] plan = "attach" -> "stick_attach"
                        [] OTHER -> "stick_detach"
             /\ calls' = Append(calls, info)
             /\ UNCHANGED results
       IN  IF s.cookie # NoKey /\ s.expiration # NoKey
           THEN /\ Fail("'cookie' and 'expiration' can not be set at the same time")
                /\ UNCHANGED <<tmp, calls, changed>>
           ELSE IF s.type = "loadbalancer" /\ s.enabled /\ s.expiration = NoKey
           THEN /\ Fail("expiration must be set when type is loadbalancer")
                /\ calls' = Append(calls, info)
                /\ UNCHANGED <<tmp, changed>>
           ELSE IF s.type = "application" /\ s.enabled /\ s.cookie = NoKey
           THEN /\ Fail("cookie must be set when type is application")
                /\ calls' = Append(calls, info)
                /\ UNCHANGED <<tmp, changed>>
           ELSE IF s.type = "loadbalancer" /\ s.enabled
           THEN /\ goto(StickinessPlan(live.lb_policies, LBName, s.expiration),
                        LBName)
                /\ UNCHANGED changed
           ELSE IF s.type = "loadbalancer"
           THEN /\ goto("disable", LBName)
                /\ changed' = ChangedAfterLbDisable(live.lb_policies, changed)
           ELSE IF s.type = "application" /\ s.enabled
           THEN /\ goto(StickinessPlan(live.app_policies, AppName, s.cookie),
                        AppName)
                /\ UNCHANGED changed
           ELSE IF s.type = "application"
           THEN /\ goto("disable", AppName)
                /\ changed' = ChangedAfterAppDisable(live.app_policies, changed)
           ELSE /\ goto("detach_only", "")
                /\ UNCHANGED changed
  /\ UNCHANGED <<cfg, support, live, live0, elb, Changed, status, run>>

\* elb_conn.set_lb_policies_of_listener for every port of the set
set_lb_policies_of_listeners(lb, ports, policies) ==
  [lb EXCEPT !.listener_policies =
     {lp \in @ : lp[1] \notin ports}
     \cup {<<port, name>> : port \in ports, name \in policies}]

\* _set_listener_policy(listeners_dict): no policy on the HTTP listeners
_set_listener_policy_none ==
  /\ pc = "stick_detach"
  /\ live' = set_lb_policies_of_listeners(live, tmp.ports, {})
  /\ IF tmp.ports # {}
     THEN calls' = Append(calls,
                     Call("set_lb_policies_of_listener", "SyncStickiness",
                          [ports |-> tmp.ports, policies |-> {}]))
     ELSE UNCHANGED calls
  /\ pc' = IF tmp.plan = "detach_only" THEN Then("stickiness")
           ELSE "stick_delete"
  /\ tmp' = IF tmp.plan = "detach_only" THEN NoTmp ELSE tmp
  /\ UNCHANGED <<cfg, support, live0, elb, changed, Changed, status, steps,
                 run, results>>

\* elb_conn.delete_lb_policy(elb_name, policy)
delete_lb_policy(lb, name) ==
  [lb EXCEPT
     !.lb_policies = SelectSeq(@, LAMBDA p : p.policy_name # name),
     !.app_policies = SelectSeq(@, LAMBDA p : p.policy_name # name)]

_delete_policy ==
  /\ pc = "stick_delete"
  /\ live' = delete_lb_policy(live, tmp.policy)
  /\ calls' = Append(calls,
                Call("delete_lb_policy", "SyncStickiness", tmp.policy))
  /\ pc' = IF tmp.plan = "update" THEN "stick_create" ELSE Then("stickiness")
  /\ tmp' = IF tmp.plan = "update" THEN tmp ELSE NoTmp
  /\ UNCHANGED <<cfg, support, live0, elb, changed, Changed, status, steps,
                 run, results>>

\* _create_policy, and self.changed = True after it
_create_policy ==
  /\ pc = "stick_create"
  /\ LET s == cfg.stickiness[1]
     IN  live' = IF s.type = "loadbalancer"
                 THEN [live EXCEPT !.lb_policies =
                         Append(@, Policy(tmp.policy, s.expiration))]
                 ELSE [live EXCEPT !.app_policies =
                         Append(@, Policy(tmp.policy, s.cookie))]
  /\ calls' = Append(calls,
                Call("create_lb_policy", "SyncStickiness", tmp.policy))
  /\ changed' = TRUE
  /\ pc' = "stick_attach"
  /\ UNCHANGED <<cfg, support, live0, elb, Changed, status, tmp, steps, run,
                 results>>

\* _set_listener_policy(listeners_dict, policy): the policy on the HTTP listeners
_set_listener_policy ==
  /\ pc = "stick_attach"
  /\ live' = set_lb_policies_of_listeners(live, tmp.ports, {tmp.policy})
  /\ IF tmp.ports # {}
     THEN calls' = Append(calls,
                     Call("set_lb_policies_of_listener", "SyncStickiness",
                          [ports |-> tmp.ports, policies |-> {tmp.policy}]))
     ELSE UNCHANGED calls
  /\ pc' = Then("stickiness")
  /\ tmp' = NoTmp
  /\ UNCHANGED <<cfg, support, live0, elb, changed, Changed, status, steps,
                 run, results>>

(* ------------------------------- result ------------------------------- *)

\* main(): module.exit_json(changed=elb_man.changed, elb=elb_man.get_info())
exit_json ==
  /\ pc = "exit"
  /\ results' = Append(results, [failed |-> FALSE, changed |-> changed,
                                 status |-> status, msg |-> "",
                                 info |-> get_info(live)])
  /\ calls' = Append(calls, Call("get_all_load_balancers", "get_info", {}))
  /\ pc' = "done"
  /\ UNCHANGED <<cfg, support, live, live0, elb, changed, Changed, status,
                 tmp, steps, run>>

\* the caller runs the module again with the same parameters
Rerun ==
  /\ pc = "done"
  /\ run < MaxRuns
  /\ run' = run + 1
  /\ pc' = "main"
  /\ elb' = NoElbObject
  /\ changed' = FALSE
  /\ Changed' = FALSE
  /\ status' = "gone"
  /\ tmp' = NoTmp
  /\ calls' = <<>>
  /\ steps' = <<>>
  /\ UNCHANGED <<cfg, support, live, live0, results>>

Next ==
  \/ main
  \/ ElbManager_init
  \/ check_support
  \/ ensure_ok
  \/ ensure_gone
  \/ _delete_elb
  \/ _create_elb
  \/ _set_zones
  \/ _disable_zones
  \/ _set_security_groups
  \/ _set_elb_listeners
  \/ _create_elb_listeners
  \/ _set_subnets
  \/ _detach_subnets
  \/ _set_health_check
  \/ _set_connection_draining_timeout
  \/ _set_cross_az_load_balancing
  \/ select_stickiness_policy
  \/ _set_listener_policy_none
  \/ _delete_policy
  \/ _create_policy
  \/ _set_listener_policy
  \/ exit_json
  \/ Rerun

Spec == Init /\ [][Next]_vars

(* ------------------------- a second client ---------------------------- *)

\* what another client of the provider can do to the balancer
ExternalMutations(lb) ==
  {[lb EXCEPT !.zones = @ \cup {z}] : z \in Zones \ lb.zones}
  \cup {[lb EXCEPT !.zones = @ \ {z}] :
          z \in {x \in lb.zones : lb.zones # {x}}}
  \cup {[lb EXCEPT !.subnets = @ \cup {sn}] : sn \in Subnets \ lb.subnets}
  \cup {delete_load_balancer_listeners(lb, {l.load_balancer_port}) :
          l \in lb.listeners}

\* another client changes the balancer after _get_elb has fetched it and
\* before the first corrective call of ensure_ok
ExternalActor ==
  /\ pc = "ensure_ok"
  /\ elb.found
  /\ \E lb \in ExternalMutations(live) : live' = lb
  /\ UNCHANGED <<cfg, support, live0, elb, changed, Changed, status, pc, tmp,
                 calls, steps, run, results>>

ConcInit == \E c \in ConcChoices : Start(c)

ConcNext == Next \/ ExternalActor

SpecConcurrent == ConcInit /\ [][ConcNext]_vars

(* ------------------------------ properties ---------------------------- *)

Issued(op) == \E i \in DOMAIN calls : calls[i].op = op

CountOp(op) == Cardinality({i \in DOMAIN calls : calls[i].op = op})

NoMutatingCall == \A i \in DOMAIN calls : calls[i].op \notin MutatingOps

\* the result of the invocation that just ended
Result == results[Len(results)]

DesiredTuples == {_listener_as_tuple(cfg.listeners[i]) : i \in DOMAIN cfg.listeners}

DesiredPorts == {cfg.listeners[i].load_balancer_port : i \in DOMAIN cfg.listeners}

TuplesOf(listeners) == {_api_listener_as_tuple(l) : l \in listeners}

\* the balancer the first invocation meets is absent, or a managed field of it
\* differs from the parameters
InitiallyDiffers ==
  \/ ~live0.exists
  \/ /\ cfg.zones # {}
     /\ IF cfg.purge_zones THEN live0.zones # cfg.zones
        ELSE ~(cfg.zones \subseteq live0.zones)
  \/ /\ cfg.subnets # {}
     /\ IF cfg.purge_subnets THEN live0.subnets # cfg.subnets
        ELSE ~(cfg.subnets \subseteq live0.subnets)
  \/ /\ cfg.security_group_ids # <<>>
     /\ live0.security_groups # cfg.security_group_ids[1]
  \/ ~(DesiredTuples \subseteq TuplesOf(live0.listeners))
  \/ cfg.purge_listeners /\ ~(TuplesOf(live0.listeners) \subseteq DesiredTuples)
  \/ /\ cfg.health_check # <<>>
     /\ live0.health_check[1] # health_check_config(cfg.health_check[1])
  \/ /\ support.connection_draining
     /\ IF cfg.connection_draining_timeout # <<>>
        THEN live0.connection_draining #
               [enabled |-> TRUE, timeout |-> cfg.connection_draining_timeout[1]]
        ELSE live0.connection_draining.enabled
  \/ /\ support.cross_zone_load_balancing
     /\ live0.cross_zone # TruthyBool(cfg.cross_az_load_balancing)

\* C1: two consecutive ensure_ok invocations with the same parameters, the
\* first one on a balancer that is absent or differs from them, report
\* changed=true and then changed=false.
C1_Idempotence ==
  (cfg.state = "present" /\ pc = "done" /\ Len(results) = 2 /\ InitiallyDiffers)
    => (results[1].changed /\ ~results[2].changed)

\* the sync steps ensure_ok runs on a balancer that was found
ExpectedSteps ==
  SelectSeq(<<"SyncZones", "SyncSecurityGroups", "SyncListeners",
              "SyncSubnets", "SyncHealthCheck", "SyncConnectionDraining",
              "SyncCrossAzBalancing", "SyncStickiness">>,
            LAMBDA x :
              /\ x = "SyncConnectionDraining" => support.connection_draining
              /\ x = "SyncCrossAzBalancing" => support.cross_zone_load_balancing)

IsPrefix(a, b) == Len(a) <= Len(b) /\ \A i \in DOMAIN a : a[i] = b[i]

\* the place of the step a provider call belongs to
StepRank(step) ==
  CASE step = "init" -> 0
    [] step = "SyncZones" -> 1
    [] step = "SyncSecurityGroups" -> 2
    [] step = "SyncListeners" -> 3
    [] step = "SyncSubnets" -> 4
    [] step = "SyncHealthCheck" -> 5
    [] step = "SyncConnectionDraining" -> 6
    [] step = "SyncCrossAzBalancing" -> 7
    [] step = "SyncStickiness" -> 8
    [] OTHER -> 9

\* ensure_ok runs on a balancer that _get_elb found
Syncing == cfg.state = "present" /\ status = "ok"

\* C2: on a balancer that exists ensure_ok runs SyncZones, SyncSecurityGroups,
\* SyncListeners, SyncSubnets, SyncHealthCheck, SyncConnectionDraining and
\* SyncCrossAzBalancing (each only if supported) and SyncStickiness once each
\* in this order, and no provider call of a later step precedes a call of an
\* earlier one.
C2_SyncOrder ==
  Syncing =>
    /\ IsPrefix(steps, ExpectedSteps)
    /\ pc \in {"exit", "done"} => steps = ExpectedSteps
    /\ \A i, j \in DOMAIN calls :
         i < j => StepRank(calls[i].step) <= StepRank(calls[j].step)

\* a finished sync in which the first and the last-but-three step called the
\* provider
C2_Witness ==
  /\ Syncing
  /\ pc = "done"
  /\ Len(steps) = 8
  /\ Issued("enable_zones")
  /\ Issued("create_load_balancer_listeners")
  /\ Issued("attach_lb_to_subnets")
  /\ Issued("configure_health_check")

BothCookieAndExpiration ==
  /\ cfg.stickiness # <<>>
  /\ cfg.stickiness[1].cookie # NoKey
  /\ cfg.stickiness[1].expiration # NoKey

\* C3: an invocation whose stickiness has both 'cookie' and 'expiration' fails
\* before any provider call: it never ends with a result and no mutating call
\* has been issued.
C3_StickinessExclusive ==
  (cfg.state = "present" /\ BothCookieAndExpiration) =>
    /\ pc # "done"
    /\ NoMutatingCall

\* C4: when security_group_ids is given and differs as a set from the
\* balancer's groups, ensure_ok calls apply_security_groups_to_lb with the
\* whole set and the result is changed=true; when the sets are equal it does
\* not call it.
C4_SecurityGroupsChanged ==
  (Syncing /\ pc = "done") =>
    IF cfg.security_group_ids # <<>>
       /\ elb.security_groups # cfg.security_group_ids[1]
    THEN /\ \E i \in DOMAIN calls :
              /\ calls[i].op = "apply_security_groups_to_lb"
              /\ calls[i].arg = cfg.security_group_ids[1]
         /\ live.security_groups = cfg.security_group_ids[1]
         /\ Result.changed
    ELSE ~Issued("apply_security_groups_to_lb")

\* the orderings of a list
Perms(A) == {[i \in DOMAIN A |-> A[f[i]]] : f \in Permutations(DOMAIN A)}

\* the desired tuples that have no equal live tuple on their port
ExpectedAdditions(A, B) ==
  {t \in {_listener_as_tuple(A[i]) : i \in DOMAIN A} :
     ~\E l \in B : l.load_balancer_port = t[1] /\ _api_listener_as_tuple(l) = t}

\* the live tuples whose port carries a differing desired tuple and, when
\* purging, those whose port no desired listener has
ExpectedRemovals(A, B, purge) ==
  {_api_listener_as_tuple(l) :
     l \in {x \in B :
              \/ \E i \in DOMAIN A :
                   /\ A[i].load_balancer_port = x.load_balancer_port
                   /\ _listener_as_tuple(A[i]) # _api_listener_as_tuple(x)
              \/ /\ purge
                 /\ \A i \in DOMAIN A :
                      A[i].load_balancer_port # x.load_balancer_port}}

\* _set_elb_listeners has made its calls
ListenersSynced ==
  /\ \E i \in DOMAIN steps : steps[i] = "SyncListeners"
  /\ pc \notin {"set_elb_listeners", "create_elb_listeners"}

\* C5: for every desired list A and live set B with one listener per port,
\* SyncListeners adds exactly the desired tuples with no equal live tuple on
\* the same port and removes exactly the live tuples whose port carries a
\* differing desired tuple, plus (only when purge_listeners) the live tuples
\* on ports of no desired listener; the sets are the same for every ordering
\* of A and of B.
C5_ListenerDiff ==
  (Syncing /\ elb.found) =>
    LET B == SeqToSet(elb.listeners)
        adds == ExpectedAdditions(cfg.listeners, B)
        removes == ExpectedRemovals(cfg.listeners, B, cfg.purge_listeners)
    IN  /\ \A A2 \in Perms(cfg.listeners), B2 \in SetToSeqs(B) :
             LET d == ListenerDiff(A2, B2, cfg.purge_listeners)
             IN  SeqToSet(d.add) = adds /\ SeqToSet(d.remove) = removes
        /\ \A i \in DOMAIN calls :
             /\ calls[i].op = "delete_load_balancer_listeners"
                  => SeqToSet(calls[i].arg) = removes
             /\ calls[i].op = "create_load_balancer_listeners"
                  => SeqToSet(calls[i].arg) = adds
        /\ ListenersSynced =>
             /\ Issued("delete_load_balancer_listeners") <=> removes # {}
             /\ Issued("create_load_balancer_listeners") <=> adds # {}

\* a sync that overwrote one listener and purged another
C5_Witness ==
  /\ Syncing
  /\ pc = "done"
  /\ cfg.purge_listeners
  /\ Issued("create_load_balancer_listeners")
  /\ \E i \in DOMAIN calls :
       /\ calls[i].op = "delete_load_balancer_listeners"
       /\ \E t, u \in SeqToSet(calls[i].arg) :
            t[1] \in DesiredPorts /\ u[1] \notin DesiredPorts

ZoneOps == {"enable_zones", "disable_zones"}

SubnetOps == {"attach_lb_to_subnets", "detach_lb_from_subnets"}

ListenerOps ==
  {"create_load_balancer_listeners", "delete_load_balancer_listeners"}

\* C6: in an ensure_ok on a balancer that exists, every zone call and every
\* subnet call is issued before any listener call and before any
\* configure_health_check call.
C6_ZonesSubnetsFirst ==
  Syncing =>
    \A i, j \in DOMAIN calls :
      (/\ calls[i].op \in ZoneOps \cup SubnetOps
       /\ calls[j].op \in ListenerOps \cup {"configure_health_check"})
        => i < j

\* C6 as amended: every zone call is issued before any listener call and any
\* configure_health_check call; every subnet call is issued before any
\* configure_health_check call, and after the listener calls.
C6_ZonesFirstSubnetsBeforeHealth ==
  Syncing =>
    \A i, j \in DOMAIN calls :
      /\ (/\ calls[i].op \in ZoneOps
          /\ calls[j].op \in ListenerOps \cup {"configure_health_check"})
           => i < j
      /\ (calls[i].op \in SubnetOps /\ calls[j].op = "configure_health_check")
           => i < j
      /\ (calls[i].op \in SubnetOps /\ calls[j].op \in ListenerOps) => j < i

\* zones, listeners, subnets and the health check were all changed in one sync
C6_Witness ==
  /\ Syncing
  /\ Issued("disable_zones")
  /\ Issued("delete_load_balancer_listeners")
  /\ Issued("detach_lb_from_subnets")
  /\ Issued("configure_health_check")

\* C7: on an absent balancer ensure_ok issues one create_load_balancer call
\* with the desired tuples, zones, subnets and security groups, no separate
\* zone, subnet, security-group or listener call, and the result is
\* changed=true with status "created".
C7_Created ==
  (cfg.state = "present" /\ status = "created" /\ pc = "done") =>
    /\ CountOp("create_load_balancer") = 1
    /\ \A i \in DOMAIN calls :
         /\ calls[i].op = "create_load_balancer" =>
              calls[i].arg = [zones |-> cfg.zones,
                              security_groups |-> cfg.security_group_ids,
                              complex_listeners |-> CreateTuples,
                              subnets |-> cfg.subnets]
         /\ calls[i].op \notin ZoneOps \cup SubnetOps \cup ListenerOps
                                 \cup {"apply_security_groups_to_lb"}
    /\ Result.changed
    /\ Result.status = "created"

\* C8: ensure_gone on a balancer that exists issues one delete_load_balancer
\* call and no other mutating call and the result is changed=true, status
\* "deleted"; on an absent one it issues no mutating call and the result is
\* changed=false, status "gone".
C8_EnsureGone ==
  cfg.state = "absent" =>
    /\ \A i \in DOMAIN calls :
         calls[i].op \in MutatingOps => calls[i].op = "delete_load_balancer"
    /\ pc \in {"exit", "done"} =>
         IF elb.found
         THEN /\ CountOp("delete_load_balancer") = 1
              /\ ~live.exists
              /\ changed /\ status = "deleted"
              /\ pc = "done" => Result.changed /\ Result.status = "deleted"
         ELSE /\ NoMutatingCall
              /\ ~changed /\ status = "gone"
              /\ pc = "done" => ~Result.changed /\ Result.status = "gone"

\* a balancer was deleted and the result reported
C8_Witness ==
  /\ cfg.state = "absent"
  /\ pc = "done"
  /\ run = 1
  /\ live0.exists
  /\ ~live.exists
  /\ Result.status = "deleted"

\* desired listeners on one port are the same listener
NoConflictInDesired ==
  \A i, j \in DOMAIN cfg.listeners :
    cfg.listeners[i].load_balancer_port = cfg.listeners[j].load_balancer_port
      => _listener_as_tuple(cfg.listeners[i]) = _listener_as_tuple(cfg.listeners[j])

C10_NoPurgeKeeps ==
  (Syncing /\ ~cfg.purge_listeners) =>
    \A k \in DOMAIN elb.listeners :
      elb.listeners[k].load_balancer_port \notin DesiredPorts =>
        /\ elb.listeners[k] \in live.listeners
        /\ \A i \in DOMAIN calls :
             calls[i].op = "delete_load_balancer_listeners" =>
               /\ _api_listener_as_tuple(elb.listeners[k])
                    \notin SeqToSet(calls[i].arg)
               /\ \A t \in SeqToSet(calls[i].arg) :
                    t[1] # elb.listeners[k].load_balancer_port

\* a sync without purge that changed a listener and left an unrelated one
C10_Witness ==
  /\ Syncing
  /\ ~cfg.purge_listeners
  /\ pc = "done"
  /\ Issued("delete_load_balancer_listeners")
  /\ Issued("create_load_balancer_listeners")
  /\ \E k \in DOMAIN elb.listeners :
       /\ elb.listeners[k].load_balancer_port \notin DesiredPorts
       /\ elb.listeners[k] \in live.listeners

\* SyncZones (SyncSubnets) has made its calls
ZonesSynced ==
  /\ \E i \in DOMAIN steps : steps[i] = "SyncZones"
  /\ pc # "disable_zones"
  /\ ~(pc = "failed" /\ steps[Len(steps)] = "SyncZones")

SubnetsSynced ==
  /\ \E i \in DOMAIN steps : steps[i] = "SyncSubnets"
  /\ pc # "detach_subnets"

\* C11: the set to enable (attach) and the set to disable (detach) that
\* SyncZones (SyncSubnets) computes are disjoint, in the step and in the calls
\* it issues, and with the purge flag false the set to disable (detach) is
\* empty and no disable_zones (detach_lb_from_subnets) call is issued.
C11_ZoneSubnetDiff ==
  Syncing =>
    /\ pc = "set_zones" =>
         /\ zones_to_enable \cap zones_to_disable = {}
         /\ ~cfg.purge_zones => zones_to_disable = {}
    /\ pc \in {"set_subnets", "detach_subnets"} =>
         /\ subnets_to_attach \cap subnets_to_detach = {}
         /\ ~cfg.purge_subnets => subnets_to_detach = {}
    /\ \A i, j \in DOMAIN calls :
         /\ (calls[i].op = "enable_zones" /\ calls[j].op = "disable_zones")
              => calls[i].arg \cap calls[j].arg = {}
         /\ (/\ calls[i].op = "attach_lb_to_subnets"
             /\ calls[j].op = "detach_lb_from_subnets")
              => calls[i].arg \cap calls[j].arg = {}
    /\ ~cfg.purge_zones => ~Issued("disable_zones")
    /\ ~cfg.purge_subnets => ~Issued("detach_lb_from_subnets")

\* a sync without purge_zones that enabled a zone and left one that is not
\* desired, and with purge_subnets attached one subnet and detached another
C11_Witness ==
  /\ Syncing
  /\ pc = "done"
  /\ ~cfg.purge_zones
  /\ live.zones \ cfg.zones # {}
  /\ Issued("enable_zones")
  /\ cfg.purge_subnets
  /\ Issued("attach_lb_to_subnets")
  /\ Issued("detach_lb_from_subnets")

\* C12: within SyncZones the enable_zones call precedes the disable_zones
\* call, and for a non-empty desired zone set the balancer has a zone in
\* every state of the sync: between the two calls it has the desired zones
\* and the ones still to disable, also when purge_zones is true and the
\* desired and the live zones are disjoint.
C12_EnableBeforeDisable ==
  Syncing =>
    /\ \A i, j \in DOMAIN calls :
         (calls[i].op = "enable_zones" /\ calls[j].op = "disable_zones")
           => i < j
    /\ cfg.zones # {} => live.zones # {}
    /\ (pc = "disable_zones" /\ cfg.zones # {}) =>
         /\ cfg.zones \subseteq live.zones
         /\ tmp.disable \subseteq live.zones

\* between the two calls of a purging sync whose desired zones and live zones
\* were disjoint
C12_Witness ==
  /\ Syncing
  /\ run = 1
  /\ pc = "disable_zones"
  /\ cfg.purge_zones
  /\ cfg.zones # {}
  /\ live0.zones \cap cfg.zones = {}
  /\ Issued("enable_zones")
  /\ tmp.disable = live0.zones

\* C13: after SyncZones (SyncSubnets) with a non-empty desired set the live
\* set is the desired set when the purge flag is true, and the union of the
\* set before the first invocation and the desired set when it is false.
C13_PurgeConvergence ==
  Syncing =>
    /\ (ZonesSynced /\ cfg.zones # {}) =>
         live.zones = IF cfg.purge_zones THEN cfg.zones
                      ELSE live0.zones \cup cfg.zones
    /\ (SubnetsSynced /\ cfg.subnets # {}) =>
         live.subnets = IF cfg.purge_subnets THEN cfg.subnets
                        ELSE live0.subnets \cup cfg.subnets

\* a sync that purged a zone, and attached a subnet next to one that is not
\* desired and stays
C13_Witness ==
  /\ Syncing
  /\ pc = "done"
  /\ cfg.purge_zones
  /\ Issued("enable_zones")
  /\ Issued("disable_zones")
  /\ live.zones = cfg.zones
  /\ ~cfg.purge_subnets
  /\ Issued("attach_lb_to_subnets")
  /\ live.subnets \ cfg.subnets # {}

\* C14: when a health check is desired and the target, timeout, interval,
\* unhealthy_threshold and healthy_threshold of the balancer's health check
\* all equal the desired descriptor, SyncHealthCheck issues no
\* configure_health_check call and leaves changed as it is; when a field
\* differs, or the balancer object has no health check, it issues exactly one
\* configure_health_check call with the desired descriptor and sets changed.
C14_HealthCheckNoOp ==
  [][(pc = "set_health_check" /\ cfg.health_check # <<>>) =>
       LET config == health_check_config(cfg.health_check[1])
       IN  IF elb.health_check # <<>> /\ elb.health_check[1] = config
           THEN calls' = calls /\ changed' = changed
           ELSE /\ calls' = Append(calls, Call("configure_health_check",
                                                "SyncHealthCheck", config))
                /\ changed'
                /\ live'.health_check = <<config>>]_vars

\* a sync whose desired health check is the one the balancer has: no call and
\* no change
C14_Witness ==
  /\ Syncing
  /\ run = 1
  /\ pc = "done"
  /\ cfg.health_check # <<>>
  /\ live0.health_check = <<health_check_config(cfg.health_check[1])>>
  /\ ~Issued("configure_health_check")
  /\ ~Result.changed

\* a value other than the default is desired for an attribute the provider
\* client does not support
UnsupportedRequested ==
  \/ cfg.connection_draining_timeout # <<>> /\ ~support.connection_draining
  \/ /\ cfg.cross_az_load_balancing = <<TRUE>>
     /\ ~support.cross_zone_load_balancing

\* the invocation has not got past the checks of main()
Rejected == pc \in {"main", "init", "check_support", "failed"}

\* C15: when the provider client does not support connection draining
\* (cross-zone balancing) and connection_draining_timeout is not null, 0
\* included (cross_az_load_balancing is true), the invocation fails and no
\* mutating provider call has been issued.
C15_UnsupportedFatal ==
  UnsupportedRequested => (Rejected /\ NoMutatingCall)

\* C16: with state=present, when no listeners are given or neither zones nor
\* subnets are given, the invocation fails in main() and no mutating
\* provider call has been issued.
C16_MissingRequired ==
  (/\ cfg.state = "present"
   /\ cfg.listeners = <<>> \/ (cfg.zones = {} /\ cfg.subnets = {}))
    => (pc \in {"main", "failed"} /\ NoMutatingCall)

\* an invocation for a balancer that does not exist failed for want of zones
\* and subnets
C16_Witness ==
  /\ cfg.state = "present"
  /\ pc = "failed"
  /\ cfg.listeners # <<>>
  /\ cfg.zones = {}
  /\ cfg.subnets = {}
  /\ calls = <<>>
  /\ Result.failed

\* stickiness is desired with enabled=true and the parameter of its type
EnabledStickiness ==
  /\ cfg.stickiness # <<>>
  /\ cfg.stickiness[1].enabled
  /\ \/ /\ cfg.stickiness[1].type = "loadbalancer"
        /\ cfg.stickiness[1].expiration # NoKey
        /\ cfg.stickiness[1].cookie = NoKey
     \/ /\ cfg.stickiness[1].type = "application"
        /\ cfg.stickiness[1].cookie # NoKey
        /\ cfg.stickiness[1].expiration = NoKey

\* the name of the policy of the desired type, and its desired value
StickName ==
  IF cfg.stickiness[1].type = "loadbalancer" THEN LBName ELSE AppName

StickValue ==
  IF cfg.stickiness[1].type = "loadbalancer"
  THEN cfg.stickiness[1].expiration
  ELSE cfg.stickiness[1].cookie

\* the policies of the desired type on a balancer
PoliciesOf(lb) ==
  IF cfg.stickiness[1].type = "loadbalancer"
  THEN SeqToSet(lb.lb_policies)
  ELSE SeqToSet(lb.app_policies)

\* the policies of the deterministic name before the first invocation
NamedBefore == {p \in PoliciesOf(live0) : p.policy_name = StickName}

\* a call of another step that sets changed has been issued
ChangedElsewhere ==
  \E i \in DOMAIN calls :
    calls[i].op \in {"create_load_balancer", "configure_health_check"}
                      \cup ZoneOps \cup SubnetOps \cup ListenerOps

DisabledStickiness ==
  /\ cfg.stickiness # <<>>
  /\ ~cfg.stickiness[1].enabled
  /\ cfg.stickiness[1].type \in {"loadbalancer", "application"}
  /\ ~BothCookieAndExpiration

\* C18: SyncStickiness with enabled=false takes the policies off every live
\* listener whose protocol starts with HTTP before any delete, and issues a
\* delete_lb_policy call for the policy of the deterministic name only if the
\* balancer has a policy of that name: none is issued when it has not.
C18_StickinessDisabled ==
  (cfg.state = "present" /\ run = 1 /\ pc \in {"exit", "done"}
   /\ DisabledStickiness) =>
    /\ \A i, j \in DOMAIN calls :
         (/\ calls[i].op = "set_lb_policies_of_listener"
          /\ calls[j].op = "delete_lb_policy") => i < j
    /\ \A l \in live.listeners :
         StartsWithHTTP(l.protocol) =>
           ~\E lp \in live.listener_policies : lp[1] = l.load_balancer_port
    /\ \A i \in DOMAIN calls :
         calls[i].op = "delete_lb_policy" => calls[i].arg = StickName
    /\ Issued("delete_lb_policy") <=> NamedBefore # {}

\* C19: SyncStickiness with enabled=false sets changed to true only if the
\* balancer has a policy of the deterministic name of the selected type
\* before the step, for the loadbalancer type and for the application type.
C19_DisabledChangedOnlyIfNamed ==
  [][(/\ DisabledStickiness
      /\ pc \in {"stickiness", "stick_detach", "stick_delete"}
      /\ ~changed
      /\ changed') =>
       \E p \in PoliciesOf(live) : p.policy_name = StickName]_vars

\* the step has set changed for an application policy of the deterministic
\* name, and no other step had
C19_Witness ==
  /\ Syncing
  /\ DisabledStickiness
  /\ cfg.stickiness[1].type = "application"
  /\ pc = "stick_detach"
  /\ changed
  /\ ~ChangedElsewhere
  /\ \E p \in PoliciesOf(live) : p.policy_name = StickName

\* the stickiness of the balancer the first invocation meets differs from
\* the desired one: the policy or an attachment is missing (enabled=true),
\* or the policy or an attachment is there (enabled=false)
StickinessDiffers ==
  /\ cfg.stickiness # <<>>
  /\ IF EnabledStickiness
     THEN \/ Policy(StickName, StickValue) \notin PoliciesOf(live0)
          \/ \E l \in live0.listeners :
               ~(<<l.load_balancer_port, StickName>> \in live0.listener_policies
                   <=> StartsWithHTTP(l.protocol))
     ELSE IF DisabledStickiness
     THEN \/ NamedBefore # {}
          \/ \E l \in live0.listeners, lp \in live0.listener_policies :
               StartsWithHTTP(l.protocol) /\ lp[1] = l.load_balancer_port
     ELSE TRUE

\* C20: when the balancer equals the desired configuration in every managed
\* field (listeners, zones, subnets, security groups, health check,
\* connection draining, cross-zone balancing, the stickiness policy and its
\* attachments) ensure_ok issues no mutating provider call; so does a second
\* invocation with the same parameters after a first one that ended with a
\* result.
C20_MinimalCalls ==
  (Syncing /\ pc = "done") =>
    /\ (run = 1 /\ ~InitiallyDiffers /\ ~StickinessDiffers) => NoMutatingCall
    /\ (run = 2 /\ NoConflictInDesired) => NoMutatingCall

\* the last provider call of the invocation raised a BotoServerError
ProviderError(log) ==
  Len(log) > 0 /\ log[Len(log)].op = "BotoServerError"

\* the steps of ensure_ok that end the invocation when their provider call
\* fails
ProviderCallSteps ==
  {"create_elb", "set_zones", "disable_zones", "create_elb_listeners"}

\* C21: when a provider call fails during ensure_ok the invocation ends
\* there: the failing step applies nothing and undoes nothing, no step
\* follows it (no later sync step, no retry, no rollback), so the mutations
\* that succeeded before stay on the balancer; the message reported is the
\* provider's own when it is an invalid-zone error and the generic
\* unknown-server-error message otherwise.
C21_NoRecovery ==
  [][/\ pc = "failed" => UNCHANGED vars
     /\ (pc # "failed" /\ pc' = "failed") =>
          /\ live' = live
          /\ results'[Len(results')].failed
     /\ (pc \in ProviderCallSteps /\ pc' = "failed") =>
          results'[Len(results')].msg =
            IF /\ ProviderError(calls')
               /\ calls'[Len(calls')].arg = "Invalid Availability Zone: us-east-1x"
            THEN "Invalid Availability Zone: us-east-1x"
            ELSE "an unknown server error occurred, please try again later"]_vars

\* C22: an invocation, state present or absent, that reports changed=true
\* has issued a mutating provider call, and the balancer is not the one the
\* invocation met.
C22_ChangedOnlyIfAltered ==
  (pc = "done" /\ run = 1 /\ Result.changed) =>
    /\ ~NoMutatingCall
    /\ live # live0

\* changed=true is reported for the removal of an application policy alone
C22_Witness ==
  /\ Syncing
  /\ pc = "done"
  /\ run = 1
  /\ Result.changed
  /\ ~ChangedElsewhere
  /\ Issued("delete_lb_policy")
  /\ live.app_policies # live0.app_policies

\* the records of the instances behind the balancer that are in one of the
\* states
InState(states) ==
  Cardinality({k \in DOMAIN live.instance_states :
                 live.instance_states[k] \in states})

\* C23: in the info of a balancer that exists in_service_count is the number
\* of health records whose state is InService, out_of_service_count the
\* number of those whose state is OutOfService and
\* unknown_instance_state_count the number of all others, so the three add up
\* to the number of records; they are 0 when no instance is attached.
C23_InstanceCounters ==
  (pc = "done" /\ Result.info.found) =>
    /\ Result.info.in_service_count = InState({"InService"})
    /\ Result.info.out_of_service_count = InState({"OutOfService"})
    /\ Result.info.unknown_instance_state_count
         = InState(InstanceStates \ {"InService", "OutOfService"})
    /\ Result.info.in_service_count + Result.info.out_of_service_count
         + Result.info.unknown_instance_state_count
         = Len(live.instance_states)
    /\ live.instance_states = <<>> =>
         /\ Result.info.in_service_count = 0
         /\ Result.info.out_of_service_count = 0
         /\ Result.info.unknown_instance_state_count = 0

\* the info of a balancer with instances in all three kinds of state
C23_Witness ==
  /\ pc = "done"
  /\ Result.info.found
  /\ Result.info.in_service_count = 1
  /\ Result.info.out_of_service_count = 1
  /\ Result.info.unknown_instance_state_count = 1

\* C24: when another client changes the balancer between the fetch of
\* _get_elb and the corrective calls, the invocation does not notice: the
\* balancer is not fetched again before the calls, the subnet and listener
\* calls are exactly those of the diff against the snapshot, whatever the
\* balancer is by then.
C24_StaleSnapshot ==
  Syncing =>
    /\ \A i \in DOMAIN calls :
         /\ calls[i].op = "get_all_load_balancers" =>
              calls[i].step \in {"init", "SyncStickiness", "get_info"}
         /\ calls[i].op = "attach_lb_to_subnets" =>
              calls[i].arg = cfg.subnets \ elb.subnets
         /\ calls[i].op = "detach_lb_from_subnets" =>
              calls[i].arg = elb.subnets \ cfg.subnets
         /\ calls[i].op = "delete_load_balancer_listeners" =>
              calls[i].arg = listeners_to_remove
         /\ calls[i].op = "create_load_balancer_listeners" =>
              calls[i].arg = listeners_to_add
    /\ (SubnetsSynced /\ cfg.subnets # {}) =>
         (Issued("attach_lb_to_subnets") <=> cfg.subnets \ elb.subnets # {})
    /\ ListenersSynced =>
         (Issued("create_load_balancer_listeners") <=> listeners_to_add # <<>>)

\* an invocation that purges zones, subnets and listeners ended with a
\* result, having issued none of their calls, on a balancer that another
\* client left with a zone and a subnet that are not desired and without a
\* desired listener
C24_Witness ==
  /\ Syncing
  /\ pc = "done"
  /\ run = 1
  /\ ~Result.failed
  /\ cfg.purge_zones /\ cfg.purge_subnets /\ cfg.purge_listeners
  /\ cfg.zones # {} /\ live.zones # cfg.zones
  /\ cfg.subnets # {} /\ live.subnets # cfg.subnets
  /\ ~(DesiredTuples \subseteq TuplesOf(live.listeners))
  /\ \A i \in DOMAIN calls :
       calls[i].op \notin ZoneOps \cup SubnetOps \cup ListenerOps

\* the ports of the tuples of a listener call
PortsOfTuples(tuples) == {t[1] : t \in SeqToSet(tuples)}

\* C25: SyncListeners issues at most one delete_load_balancer_listeners call
\* with all the removals and at most one create_load_balancer_listeners call
\* with all the additions, the delete call first; every listener of the
\* fetched balancer on the port of an addition is in the delete call, and
\* when the create call is about to be issued the balancer has no listener
\* on the port of an addition.
C25_RemovalBeforeAddition ==
  Syncing =>
    /\ CountOp("delete_load_balancer_listeners") <= 1
    /\ CountOp("create_load_balancer_listeners") <= 1
    /\ \A i, j \in DOMAIN calls :
         (/\ calls[i].op = "delete_load_balancer_listeners"
          /\ calls[j].op = "create_load_balancer_listeners") => i < j
    /\ \A j \in DOMAIN calls :
         calls[j].op = "create_load_balancer_listeners" =>
           /\ calls[j].arg = listeners_to_add
           /\ \A l \in SeqToSet(elb.listeners) :
                l.load_balancer_port \in PortsOfTuples(calls[j].arg) =>
                  \E i \in 1..(j - 1) :
                    /\ calls[i].op = "delete_load_balancer_listeners"
                    /\ calls[i].arg = listeners_to_remove
                    /\ l.load_balancer_port \in PortsOfTuples(calls[i].arg)
    /\ pc = "create_elb_listeners" =>
         \A l \in live.listeners :
           l.load_balancer_port \notin PortsOfTuples(listeners_to_add)

\* a sync that ended after it replaced the listener of a port: the delete
\* call and the create call both carry that port
C25_Witness ==
  /\ Syncing
  /\ pc = "done"
  /\ ~Result.failed
  /\ \E i, j \in DOMAIN calls :
       /\ calls[i].op = "delete_load_balancer_listeners"
       /\ calls[j].op = "create_load_balancer_listeners"
       /\ PortsOfTuples(calls[i].arg) \cap PortsOfTuples(calls[j].arg) # {}

\* C26: within an invocation self.changed starts false, no step of ensure_ok
\* or ensure_gone takes it from true back to false, and exit_json reports the
\* value it has at the end.
C26_ChangedMonotone ==
  [][/\ (pc = "main" => ~changed)
     /\ ((changed /\ pc # "done") => changed')
     /\ ((pc = "exit" /\ pc' = "done") =>
           results'[Len(results')].changed = changed)]_vars

\* C27: when the first invocation on a balancer that exists ends with a
\* result and its SyncConnectionDraining or SyncCrossAzBalancing has changed
\* the connection draining or the cross-zone value of the balancer, the
\* result is changed=true.
C27_AttributeChangeReported ==
  (/\ Syncing
   /\ pc = "done"
   /\ run = 1
   /\ ~Result.failed
   /\ \/ /\ Issued("modify_lb_attribute")
         /\ live.connection_draining # live0.connection_draining
      \/ /\ Issued("modify_lb_attribute")
         /\ live.cross_zone # live0.cross_zone)
    => Result.changed

PolicyOps ==
  {"create_lb_policy", "delete_lb_policy", "set_lb_policies_of_listener"}

\* the ports of the listeners that the delete_load_balancer_listeners calls
\* issued so far have deleted
DeletedPorts ==
  UNION {PortsOfTuples(calls[i].arg) :
           i \in {j \in DOMAIN calls :
                    calls[j].op = "delete_load_balancer_listeners"}}

====
